---- MODULE Spec2Model ----
(***************************************************************************)
(* Model of the Privacy Firewall API (src/main.py): the POST /chat/secure  *)
(* handler secure_chat and the detection -> conflict resolution ->         *)
(* anonymization pipeline it drives.                                       *)
(*                                                                         *)
(* src/main.py delegates detection to presidio_analyzer.AnalyzerEngine and *)
(* rewriting to presidio_anonymizer.AnonymizerEngine.  The operators that  *)
(* stand for those two calls (analyze, line 90; anonymize, line 93) follow *)
(* the library's behaviour: EntityRecognizer.remove_duplicates, the        *)
(* anonymizer's conflict removal (RecognizerResult.has_conflict), the      *)
(* merge of same-type entities separated by blanks (taken in the order of  *)
(* their starts), and TextReplaceBuilder.                                  *)
(*                                                                         *)
(* Regex matching itself is abstracted: a recognizer may report any span   *)
(* of the prompt, with the score its pattern declares; the matches of one  *)
(* pattern never overlap each other (re.finditer).                         *)
(*                                                                         *)
(* Offsets are Python's: 0-based, end exclusive.  A text is a sequence of  *)
(* tokens: the prompt's characters, and whole placeholders "<ENTITY>".     *)
(***************************************************************************)
EXTENDS Integers, Sequences, FiniteSets, TLC

\* ------------------------------------------------------------------ bounds
TextLen == 3        \* length of the prompt, in characters
MaxMatches == 2     \* raw matches the recognizers report on one prompt
MaxSpaces == 1      \* blanks in the prompt

\* ---------------------------------------------------------------- registry
\* Scores are the patterns' scores times 100.
EMAIL_ADDRESS_SCORE == 100
email_pattern_score == 100
phone_pattern_score == 80
bank_pattern_score == 60
dni_pattern_score == 85
money_pattern_score == 80

\* The registry in registration order: the engine's predefined recognizers
\* (represented by its e-mail recognizer, whose validated matches score 1.0),
\* then the five custom recognizers added by add_recognizer.
registry ==
    << [entity |-> "EMAIL_ADDRESS", score |-> EMAIL_ADDRESS_SCORE],
       [entity |-> "EMAIL_CUSTOM",  score |-> email_pattern_score],
       [entity |-> "PHONE_CUSTOM",  score |-> phone_pattern_score],
       [entity |-> "BANK_ACCOUNT",  score |-> bank_pattern_score],
       [entity |-> "DNI_ARG",       score |-> dni_pattern_score],
       [entity |-> "MONEY_AMOUNT",  score |-> money_pattern_score] >>

EntityTypes == {registry[i].entity : i \in DOMAIN registry}

\* Registration index of an entity type's recognizer.
RegistrationIndex(t) == CHOOSE i \in DOMAIN registry : registry[i].entity = t

\* ------------------------------------------------------------------- texts
\* A character of the prompt: what it is (a blank or not) and, so that copies
\* of it can be told apart in the rewritten text, the offset it stands at.
Blank == " "
Char(c, i) == [ch |-> c, at |-> i]

\* A piece of text that is no character of the prompt (a placeholder, the
\* simulation marker, the provider's answer) stands at no offset.
NoOffset == 0 - 1
Inserted(str) == [ch |-> str, at |-> NoOffset]

\* The prompts: TextLen characters, at most MaxSpaces of them blanks.
Prompts ==
    {[i \in 1..TextLen |-> Char(IF (i - 1) \in B THEN Blank ELSE "x", i - 1)] :
        B \in {X \in SUBSET (0..(TextLen - 1)) : Cardinality(X) <= MaxSpaces}}

\* Python's s[a:b] for 0 <= a, 0 <= b.
Slice(s, a, b) ==
    LET hi == IF b < Len(s) THEN b ELSE Len(s)
    IN  IF a >= hi THEN <<>> ELSE SubSeq(s, a + 1, hi)

Min(a, b) == IF a < b THEN a ELSE b
Max(a, b) == IF a > b THEN a ELSE b

\* ----------------------------------------------------------------- matches
\* RecognizerResult: entity_type, start, end, score.
Match(t, s, e) ==
    [entity_type |-> t, start |-> s, end |-> e,
     score |-> registry[RegistrationIndex(t)].score]

Pool == {Match(t, s, e) : t \in EntityTypes,
                          s \in 0..(TextLen - 1), e \in 1..TextLen}

ValidPool == {m \in Pool : m.start < m.end}

intersects(a, b) == Max(0, Min(a.end, b.end) - Max(a.start, b.start))
contains(a, b) == a.start <= b.start /\ a.end >= b.end
contained_in(a, b) == a.start >= b.start /\ a.end <= b.end
equal_indices(a, b) == a.start = b.start /\ a.end = b.end

\* What the recognizers can report on one prompt: at most MaxMatches
\* matches, those of one pattern pairwise disjoint.
\* phone_pattern ends on a digit at a word boundary; money_pattern begins
\* with a currency sign or ends with a currency word: the two never match
\* the very same span.
SameSpanExcluded(a, b) ==
    /\ {a.entity_type, b.entity_type} = {"PHONE_CUSTOM", "MONEY_AMOUNT"}
    /\ equal_indices(a, b)

\* The matches that may join S: disjoint from S's matches of the same type.
Joinable(S) ==
    {x \in ValidPool :
        \A a \in S : /\ a.entity_type = x.entity_type => intersects(a, x) = 0
                     /\ ~SameSpanExcluded(a, x)}

\* The sets of exactly k matches the recognizers can report.
RECURSIVE SetsOfSize(_)
SetsOfSize(k) ==
    IF k = 0 THEN {{}}
    ELSE UNION {{S \cup {m} : m \in Joinable(S)} : S \in SetsOfSize(k - 1)}

RawSets == UNION {SetsOfSize(k) : k \in 0..MaxMatches}

\* ------------------------------------------------- analyzer.analyze (l. 90)
\* The sort key of EntityRecognizer.remove_duplicates:
\* (-score, start, -(end - start)), compared as Python compares tuples.
KeyLess(a, b) ==
    \/ a.score > b.score
    \/ a.score = b.score /\ a.start < b.start
    \/ a.score = b.score /\ a.start = b.start
          /\ (a.end - a.start) > (b.end - b.start)

\* list(set(results)): the set's iteration order is not specified; every
\* enumeration of the set is possible.
SetOrders(S) ==
    {o \in [1..Cardinality(S) -> S] :
        \A i, j \in 1..Cardinality(S) : i # j => o[i] # o[j]}

StartLess(a, b) == a.start < b.start

\* RecognizerResult.__gt__, the order of sorted(pii_entities, reverse=True).
EntityGreater(a, b) ==
    IF a.start = b.start THEN a.end > b.end ELSE a.start > b.start

\* The three orders the pipeline sorts by.
Before(order, a, b) ==
    CASE order = "key" -> KeyLess(a, b)
      [] order = "start" -> StartLess(a, b)
      [] order = "reverse" -> EntityGreater(a, b)

\* sorted(): stable; x goes after every element that is not after it.
RECURSIVE InsertSorted(_, _, _)
InsertSorted(x, sortedSeq, order) ==
    IF sortedSeq = <<>> THEN <<x>>
    ELSE IF Before(order, x, Head(sortedSeq)) THEN <<x>> \o sortedSeq
    ELSE <<Head(sortedSeq)>> \o InsertSorted(x, Tail(sortedSeq), order)

RECURSIVE sorted(_, _)
sorted(list, order) ==
    IF list = <<>> THEN <<>>
    ELSE InsertSorted(list[Len(list)],
                      sorted(SubSeq(list, 1, Len(list) - 1), order), order)

InSeq(x, list) == \E i \in DOMAIN list : list[i] = x

\* The filter loop of remove_duplicates over the sorted results.
RECURSIVE FilterDuplicates(_, _)
FilterDuplicates(list, filtered_results) ==
    IF list = <<>> THEN filtered_results
    ELSE LET result == Head(list)
             to_keep ==
                 /\ result.score # 0
                 /\ ~InSeq(result, filtered_results)
                 /\ ~\E k \in DOMAIN filtered_results :
                        /\ contained_in(result, filtered_results[k])
                        /\ result.entity_type = filtered_results[k].entity_type
         IN  FilterDuplicates(Tail(list),
                              IF to_keep THEN Append(filtered_results, result)
                              ELSE filtered_results)

remove_duplicates(order) == FilterDuplicates(sorted(order, "key"), <<>>)

\* Every list analyzer.analyze can return for the raw matches S.
AnalyzeOutputs(S) == {remove_duplicates(o) : o \in SetOrders(S)}

\* ---------------------------------------------- anonymizer.anonymize (l. 93)
\* RecognizerResult.has_conflict: same indices and a score not higher, or
\* indices contained in the other's.
has_conflict(self, other) ==
    IF equal_indices(self, other) THEN self.score <= other.score
    ELSE contains(other, self)

\* list.remove(x) on a list of references into objs: the first element equal
\* to x goes.
RECURSIVE RemoveFirst(_, _, _)
RemoveFirst(refs, objs, x) ==
    IF refs = <<>> THEN <<>>
    ELSE IF objs[Head(refs)] = x THEN Tail(refs)
    ELSE <<Head(refs)>> \o RemoveFirst(Tail(refs), objs, x)

\* First pass of the conflict removal: a result that intersects a result of
\* its own type is merged into that one (whose fields are updated in place)
\* and dropped.  st = [objs, other_elements, kept]; the lists hold indices
\* into objs, the shared RecognizerResult objects.
RECURSIVE MergeSameType(_, _)
MergeSameType(i, st) ==
    IF i > Len(st.objs) THEN st
    ELSE LET result == st.objs[i]
             others == RemoveFirst(st.other_elements, st.objs, result)
             hits == {k \in DOMAIN others :
                        /\ st.objs[others[k]].entity_type = result.entity_type
                        /\ intersects(result, st.objs[others[k]]) # 0}
         IN  IF hits # {}
             THEN LET k == CHOOSE h \in hits : \A g \in hits : h <= g
                      o == st.objs[others[k]]
                      merged == [o EXCEPT !.start = Min(result.start, o.start),
                                          !.end = Max(result.end, o.end),
                                          !.score = Max(result.score, o.score)]
                  IN  MergeSameType(i + 1,
                          [objs |-> [st.objs EXCEPT ![others[k]] = merged],
                           other_elements |-> others,
                           kept |-> st.kept])
             ELSE MergeSameType(i + 1,
                      [objs |-> st.objs,
                       other_elements |-> Append(others, i),
                       kept |-> Append(st.kept, i)])

\* Second pass: a result in conflict with any other remaining result is
\* dropped.  kept_in holds the indices the first pass kept, in order.
RECURSIVE DropConflicted(_, _, _, _, _)
DropConflicted(n, kept_in, objs, other_elements, unique) ==
    IF n > Len(kept_in) THEN unique
    ELSE LET result == objs[kept_in[n]]
             others == RemoveFirst(other_elements, objs, result)
             result_conflicted ==
                 \E k \in DOMAIN others : has_conflict(result, objs[others[k]])
         IN  IF result_conflicted
             THEN DropConflicted(n + 1, kept_in, objs, others, unique)
             ELSE DropConflicted(n + 1, kept_in, objs,
                                 Append(others, kept_in[n]),
                                 Append(unique, result))

\* _remove_conflicts_and_get_text_manipulation_data, default strategy.
remove_conflicts(analyzer_results) ==
    LET n == Len(analyzer_results)
        ids == [i \in 1..n |-> i]
        p1 == MergeSameType(1, [objs |-> analyzer_results,
                                other_elements |-> ids, kept |-> <<>>])
    IN  DropConflicted(1, p1.kept, p1.objs, p1.kept, <<>>)

\* The regular expression ^( )+$ on a piece of text.
OnlyBlanks(piece) ==
    piece # <<>> /\ \A i \in DOMAIN piece : piece[i].ch = Blank

RECURSIVE RemoveFirstValue(_, _)
RemoveFirstValue(list, x) ==
    IF list = <<>> THEN <<>>
    ELSE IF Head(list) = x THEN Tail(list)
    ELSE <<Head(list)>> \o RemoveFirstValue(Tail(list), x)

\* MergeLoop with merged_results.remove(prev_result) forgotten.
RECURSIVE MergeLoopKeepsPrev(_, _, _, _)
MergeLoopKeepsPrev(text, list, has_prev, st) ==
    IF list = <<>> THEN st.merged_results
    ELSE LET result == Head(list)
             prev == st.prev_result
             joins ==
                 /\ has_prev
                 /\ prev.entity_type = result.entity_type
                 /\ OnlyBlanks(Slice(text, prev.end, result.start))
             out == IF joins THEN [result EXCEPT !.start = prev.start]
                    ELSE result
         IN  MergeLoopKeepsPrev(text, Tail(list), TRUE,
                                [merged_results |-> Append(st.merged_results, out),
                                 prev_result |-> out])

\* The loop of _merge_entities_with_whitespace_between: a result that follows
\* a result of its type after nothing but blanks takes over its start.
RECURSIVE MergeLoop(_, _, _, _)
MergeLoop(text, list, has_prev, st) ==
    IF list = <<>> THEN st.merged_results
    ELSE LET result == Head(list)
             prev == st.prev_result
             joins ==
                 /\ has_prev
                 /\ prev.entity_type = result.entity_type
                 /\ OnlyBlanks(Slice(text, prev.end, result.start))
             out == IF joins THEN [result EXCEPT !.start = prev.start]
                    ELSE result
             base == IF joins THEN RemoveFirstValue(st.merged_results, prev)
                     ELSE st.merged_results
         IN  MergeLoop(text, Tail(list), TRUE,
                       [merged_results |-> Append(base, out),
                        prev_result |-> out])

merge_entities_with_whitespace_between(text, analyzer_results) ==
    MergeLoop(text, sorted(analyzer_results, "start"), FALSE,
              [merged_results |-> <<>>,
               prev_result |-> Match("EMAIL_CUSTOM", 0, 0)])

\* The entities the rewrite step works on (the accepted set).
accepted_entities(text, analyzer_results) ==
    merge_entities_with_whitespace_between(text,
                                           remove_conflicts(analyzer_results))

\* The default operator, replace with no new_value: "<ENTITY_TYPE>".
Placeholder(entity_type) == Inserted("<" \o entity_type \o ">")

\* TextReplaceBuilder.replace_text_get_insertion_index, applied to the
\* entities from the last to the first.  tb = [output_text,
\* last_replacement_index].
RECURSIVE ReplaceAll(_, _)
ReplaceAll(entities, tb) ==
    IF entities = <<>> THEN tb.output_text
    ELSE LET entity == Head(entities)
             end_of_text_index == Min(entity.end, tb.last_replacement_index)
             before_text == Slice(tb.output_text, 0, entity.start)
             after_text == Slice(tb.output_text, end_of_text_index,
                                 Len(tb.output_text))
         IN  ReplaceAll(Tail(entities),
                 [output_text |-> before_text
                                    \o <<Placeholder(entity.entity_type)>>
                                    \o after_text,
                  last_replacement_index |-> entity.start])

\* operate with the entities taken from the first to the last.
operate_forward(text, pii_entities) ==
    ReplaceAll(sorted(pii_entities, "start"),
               [output_text |-> text, last_replacement_index |-> Len(text)])

\* EngineBase._operate.
operate(text, pii_entities) ==
    ReplaceAll(sorted(pii_entities, "reverse"),
               [output_text |-> text, last_replacement_index |-> Len(text)])

\* AnonymizerEngine.anonymize(text, analyzer_results).text
anonymize(text, analyzer_results) ==
    operate(text, accepted_entities(text, analyzer_results))

\* ------------------------------------------------------ secure_chat (l. 87)
\* The marker of the simulated answer (written here without its accent).
SIMULACION == Inserted("[SIMULACION] Prompt seguro: ")

\* What the provider may answer: opaque to the handler.
Completions == {<<Inserted("completion")>>}

VARIABLES
    api_key,            \* api_key is truthy (OPENAI_API_KEY, read at import)
    prompt,             \* request.prompt
    raw,                \* what the recognizers match on the prompt
    pc,                 \* the handler's position
    results,            \* analyzer.analyze's return value
    accepted,           \* the entities the anonymizer rewrites
    prompt_seguro,      \* anonymized_result.text
    detected_types,     \* list(set(...)), as a set
    sent,               \* the user messages handed to the provider
    recognizer_raised,  \* a recognizer raised during analyze
    provider_raised,    \* client.chat.completions.create raised
    status,             \* 0 while running, then the HTTP status
    response            \* <<the SecureChatResponse>>, <<>> when there is none

vars == <<api_key, prompt, raw, pc, results, accepted, prompt_seguro,
          detected_types, sent, recognizer_raised, provider_raised, status,
          response>>

Init ==
    /\ api_key \in BOOLEAN
    /\ prompt \in Prompts
    /\ raw \in RawSets
    /\ pc = "analizar"
    /\ results = <<>>
    /\ accepted = <<>>
    /\ prompt_seguro = <<>>
    /\ detected_types = {}
    /\ sent = <<>>
    /\ recognizer_raised = FALSE
    /\ provider_raised = FALSE
    /\ status = 0
    /\ response = <<>>

\* SecureChatResponse(ai_response=..., safety_report=SafetyReport(...))
SecureChatResponse(ai_response) ==
    <<[ai_response |-> ai_response,
       safety_report |-> [detected_items |-> detected_types,
                          sanitized_prompt |-> prompt_seguro]]>>

\* SimulatedAnswer embedding the request's prompt.
SimulatedAnswerRaw == <<SIMULACION>> \o prompt

\* f"[SIMULACION] Prompt seguro: {prompt_seguro}"
SimulatedAnswer == <<SIMULACION>> \o prompt_seguro

\* UserMessage carrying the request's prompt.
UserMessageRaw == prompt

\* {"role": "user", "content": prompt_seguro}
UserMessage == prompt_seguro

\* list(set([res.entity_type for res in results]))
DetectedTypes(res) == {res[i].entity_type : i \in DOMAIN res}

\* RaiseHTTP500 replaced by a fall-back to the simulated answer.
FallBackToSimulation ==
    /\ status' = 200
    /\ response' = SecureChatResponse(SimulatedAnswer)
    /\ pc' = "done"

\* The except clause: any exception of the try block becomes HTTP 500, and
\* the handler returns no response model.
RaiseHTTP500 ==
    /\ status' = 500
    /\ response' = <<>>
    /\ pc' = "done"

\* A. results = analyzer.analyze(text=request.prompt, language='es')
Analizar ==
    /\ pc = "analizar"
    /\ \E res \in AnalyzeOutputs(raw) : results' = res
    /\ pc' = "anonimizar"
    /\ UNCHANGED <<api_key, prompt, raw, accepted, prompt_seguro,
                   detected_types, sent, recognizer_raised, provider_raised,
                   status, response>>

\* A recognizer raises inside analyzer.analyze: neither the engine nor the
\* handler catches it before the except clause.
RecognizerRaises ==
    /\ pc = "analizar"
    /\ recognizer_raised' = TRUE
    /\ RaiseHTTP500
    /\ UNCHANGED <<api_key, prompt, raw, results, accepted, prompt_seguro,
                   detected_types, sent, provider_raised>>

\* B. anonymizer.anonymize, then detected_types from results.  (The
\* anonymizer updates start, end and score of the result objects in place;
\* only their entity_type is read afterwards.)
Anonimizar ==
    /\ pc = "anonimizar"
    /\ accepted' = accepted_entities(prompt, results)
    /\ prompt_seguro' = anonymize(prompt, results)
    /\ detected_types' = DetectedTypes(results)
    /\ pc' = "llamar"
    /\ UNCHANGED <<api_key, prompt, raw, results, sent, recognizer_raised,
                   provider_raised, status, response>>

\* C, no key: the simulated answer.
Simulacion ==
    /\ pc = "llamar"
    /\ ~api_key
    /\ response' = SecureChatResponse(SimulatedAnswer)
    /\ status' = 200
    /\ pc' = "done"
    /\ UNCHANGED <<api_key, prompt, raw, results, accepted, prompt_seguro,
                   detected_types, sent, recognizer_raised, provider_raised>>

\* C, with a key: client.chat.completions.create answers.
Completion ==
    /\ pc = "llamar"
    /\ api_key
    /\ sent' = Append(sent, UserMessage)
    /\ \E content \in Completions : response' = SecureChatResponse(content)
    /\ status' = 200
    /\ pc' = "done"
    /\ UNCHANGED <<api_key, prompt, raw, results, accepted, prompt_seguro,
                   detected_types, recognizer_raised, provider_raised>>

\* C, with a key: client.chat.completions.create raises (network,
\* authentication, timeout).
CompletionRaises ==
    /\ pc = "llamar"
    /\ api_key
    /\ sent' = Append(sent, UserMessage)
    /\ provider_raised' = TRUE
    /\ RaiseHTTP500
    /\ UNCHANGED <<api_key, prompt, raw, results, accepted, prompt_seguro,
                   detected_types, recognizer_raised>>

Next ==
    \/ Analizar
    \/ RecognizerRaises
    \/ Anonimizar
    \/ Simulacion
    \/ Completion
    \/ CompletionRaises

Spec == Init /\ [][Next]_vars

\* ------------------------------------------------------------- properties
\* The handler has run the anonymizer.
Anonymized == pc = "llamar" \/ (pc = "done" /\ ~recognizer_raised)

SeqToSet(list) == {list[i] : i \in DOMAIN list}

\* The offsets a list of entities covers.
Covered(entities) ==
    {i \in 0..(TextLen - 1) :
        \E k \in DOMAIN entities : entities[k].start <= i /\ i < entities[k].end}

\* No character of the prompt that stands inside one of the entities is in
\* the text.
NoCoveredCharacter(text, entities) ==
    \A n \in DOMAIN text : text[n].at \notin Covered(entities)

\* C1: the accepted set the rewrite step uses is sorted by start and pairwise
\* non-overlapping: no two accepted matches share a character index.
C1_AcceptedSortedNonOverlapping ==
    Anonymized =>
        \A i, j \in DOMAIN accepted :
            i < j => /\ accepted[i].start <= accepted[j].start
                     /\ accepted[i].end <= accepted[j].start

\* C2: whatever is handed to the provider is the sanitized text, handed over
\* after the whole prompt was anonymized, and the simulated answer embeds the
\* sanitized text; no character inside an accepted span is in either.
C2_OnlySanitizedTextLeaves ==
    /\ \A k \in DOMAIN sent :
          /\ pc = "done"
          /\ Anonymized
          /\ prompt_seguro = anonymize(prompt, results)
          /\ sent[k] = prompt_seguro
          /\ NoCoveredCharacter(sent[k], accepted)
    /\ (response # <<>> /\ ~api_key) =>
          /\ response[1].ai_response
                 = <<SIMULACION>> \o anonymize(prompt, results)
          /\ NoCoveredCharacter(response[1].ai_response, accepted)

C2_Witness ==
    /\ sent # <<>>
    /\ accepted # <<>>
    /\ Covered(accepted) # 0..(TextLen - 1)

\* The rewrite written forwards: the untouched slice before each entity,
\* its placeholder, and the rest of the text after the last one.
RECURSIVE Rewritten(_, _, _)
Rewritten(text, entities, cursor) ==
    IF entities = <<>> THEN Slice(text, cursor, Len(text))
    ELSE LET e == Head(entities)
         IN  Slice(text, cursor, e.start)
                \o <<Placeholder(e.entity_type)>>
                \o Rewritten(text, Tail(entities), Max(cursor, e.end))

IsPromptCharacter(tok) == tok.at # NoOffset

\* C3: the sanitized text is the prompt with each accepted span replaced by
\* its placeholder <ENTITY_TYPE>, by the prompt's offsets; the characters
\* outside all accepted spans are there unchanged and in the prompt's order.
C3_SanitizedIsRewrite ==
    Anonymized =>
        /\ prompt_seguro = Rewritten(prompt, sorted(accepted, "start"), 0)
        /\ SelectSeq(prompt_seguro, IsPromptCharacter)
              = SelectSeq(prompt, LAMBDA c : c.at \notin Covered(accepted))

C3_Witness ==
    /\ Anonymized
    /\ Len(accepted) = 2
    /\ accepted[1].end < accepted[2].start

\* C4: detected_items of the safety report is exactly the set of entity
\* types of the accepted matches.
C4_DetectedItemsAreAccepted ==
    response # <<>> =>
        response[1].safety_report.detected_items
            = {accepted[i].entity_type : i \in DOMAIN accepted}

\* The order of the greedy selection: start ascending, score descending,
\* span length descending, registration order ascending.
GreedyBefore(a, b) ==
    \/ a.start < b.start
    \/ a.start = b.start /\ a.score > b.score
    \/ a.start = b.start /\ a.score = b.score
          /\ (a.end - a.start) > (b.end - b.start)
    \/ a.start = b.start /\ a.score = b.score
          /\ (a.end - a.start) = (b.end - b.start)
          /\ RegistrationIndex(a.entity_type) < RegistrationIndex(b.entity_type)

RECURSIVE GreedySorted(_)
GreedySorted(S) ==
    IF S = {} THEN <<>>
    ELSE LET m == CHOOSE x \in S : \A y \in S \ {x} : GreedyBefore(x, y)
         IN  <<m>> \o GreedySorted(S \ {m})

RECURSIVE GreedyScan(_, _, _)
GreedyScan(list, cursor, acc) ==
    IF list = <<>> THEN acc
    ELSE IF Head(list).start >= cursor
         THEN GreedyScan(Tail(list), Head(list).end, Append(acc, Head(list)))
         ELSE GreedyScan(Tail(list), cursor, acc)

\* C5: the accepted set is the greedy selection over the raw matches; of two
\* matches that begin at the same position, only the higher-score one is
\* accepted.
C5_AcceptedIsGreedy ==
    Anonymized => accepted = GreedyScan(GreedySorted(raw), NoOffset, <<>>)

\* C6: a recognizer that raises does not make the request fail: the request
\* completes with a response.
C6_RecognizerFaultIsolated ==
    recognizer_raised => (status # 500 /\ (pc = "done" => response # <<>>))

\* The safety report the handler builds from the analyzer's results.
ReportOf(text, res) ==
    [detected_items |-> DetectedTypes(res),
     sanitized_prompt |-> anonymize(text, res)]

\* C7: without an API key a request that passed detection and anonymization
\* ends in a successful response: the provider is not called, ai_response is
\* the simulation marker followed by the sanitized text, and the safety
\* report is the one a request with a provider gets.
C7_SimulationMode ==
    /\ (~api_key /\ pc = "llamar") => ENABLED Simulacion
    /\ (~api_key /\ Anonymized) => (status # 500 /\ sent = <<>>)
    /\ (~api_key /\ Anonymized /\ pc = "done") =>
          /\ status = 200
          /\ response # <<>>
          /\ Head(response[1].ai_response) = SIMULACION
          /\ Tail(response[1].ai_response) = anonymize(prompt, results)
    /\ response # <<>> =>
          response[1].safety_report = ReportOf(prompt, results)

C7_Witness ==
    /\ ~api_key
    /\ pc = "done"
    /\ status = 200
    /\ accepted # <<>>

\* C8: with a provider configured, a failed provider call ends the request
\* in a server error: no simulated answer, no ai_response, no safety report.
C8_ProviderFailureIs500 ==
    provider_raised =>
        /\ api_key
        /\ pc = "done"
        /\ status = 500
        /\ response = <<>>

C8_Witness ==
    /\ provider_raised
    /\ accepted # <<>>

\* C9: the accepted set and the sanitized text are the same for every order
\* in which the same raw matches can reach the merge.
C9_OrderIndependent ==
    Anonymized =>
        \A res \in AnalyzeOutputs(raw) :
            /\ SeqToSet(accepted_entities(prompt, res)) = SeqToSet(accepted)
            /\ anonymize(prompt, res) = prompt_seguro

\* C10: conflict resolution applied to its own output returns it unchanged,
\* and applied again to the same input it returns the same accepted set.
C10_MergeIdempotent ==
    Anonymized =>
        /\ accepted_entities(prompt, accepted) = accepted
        /\ accepted_entities(prompt, results) = accepted

C10_Witness ==
    /\ Anonymized
    /\ accepted # <<>>
    /\ Len(accepted) < Len(results)
====
